---- MODULE Spec2Model ----
(***************************************************************************)
(* A model of the IFR route resolver (ifrroute.py) and of the airway       *)
(* lookup of the navdata index (navdata.py).                               *)
(*                                                                         *)
(* Python values are modelled as follows.                                  *)
(*   - a navaid record of the index is [code, coords, inAwy, outAwy]; the  *)
(*     other fields (type, name, elevation, ...) are never read by the     *)
(*     resolver.  A record that has no inAwy / outAwy key carries Absent.  *)
(*   - coordinates are pairs of hundredths of a degree.                    *)
(*   - an airway is referred to by its identifier and its position in the  *)
(*     list stored under that identifier (object identity of the dict).    *)
(*   - route.waypoints holds entries: a dict owned by the route (Own), a   *)
(*     reference to a record object of the index (IndexRef), or None.      *)
(*   - i, the token index, is 0-based as in the source.                    *)
(***************************************************************************)
EXTENDS Integers, Sequences, FiniteSets, TLC

VARIABLES
    waypoints,  \* IfrRoute.waypoints
    navaids,    \* NavData.navaids: code -> sequence of navaid records
    airways,    \* NavData.airways: identifier -> sequence of airways
    result,     \* what the last call of append returned (or raised)
    call,       \* the arguments of the last call and the state it started in
    log,        \* what the last call did, token by token
    endI,       \* the value of i when the last call ended
    ncalls,     \* number of calls of append made on this route
    used,       \* number of route words passed to append so far
    fa,         \* a direct call of NavData.findAirway: arguments and result
    file,       \* the data file given to NavData._parseData
    status,     \* how _parseData ended: "none" (not run), "ok", "ValueError"
    awySegments,\* _parseData's awySegments: identifier -> staged segments
    airports,   \* _parseData's airports
    frame       \* the local variables of a call of append that is under way

vars == <<waypoints, navaids, airways, result, call, log, endI, ncalls, used, fa,
          file, status, awySegments, airports, frame>>

---------------------------------------------------------------------------
(* Bounds *)

\* Total number of words in the route strings passed to append on one route.
MaxTokens == 4
\* Number of calls of append on one route.
MaxCalls == 2
\* Total number of points of the airways stored under one identifier, for
\* the direct calls of findAirway.
MaxAwyPoints == 6
\* Number of segment rows of an awy file.
MaxSegments == 3
\* Number of rows of an apt file.
MaxAptRows == 4

---------------------------------------------------------------------------
(* Python's None and missing dictionary keys *)

NoneAwy == [code |-> "None", n |-> 0]
Absent == [code |-> "absent", n |-> 0]
NoWp == [code |-> "None", coords |-> <<>>]
NoChoice == [code |-> "None", n |-> 0]
NoneEntry == [kind |-> "none"]

Own(rec) == [kind |-> "own", rec |-> rec]
IndexRef(code, n) == [kind |-> "index", code |-> code, n |-> n]

\* The dict an entry of route.waypoints refers to.
Deref(nav, e) ==
    IF e.kind = "own" THEN e.rec
    ELSE IF e.kind = "index" THEN nav[e.code][e.n]
    ELSE [code |-> "None", coords |-> <<>>, inAwy |-> Absent, outAwy |-> Absent]

---------------------------------------------------------------------------
(* The fixture index: KBOS, ORW, KJFK are unique; two fixes share ABC.     *)
(* J121 (low) runs KBOS, ORW, KJFK; a second airway J121 (high) runs from  *)
(* the second ABC to KJFK.                                                 *)

cOrigin == <<0, 0>>
cKBOS == <<4236, -7100>>
cORW == <<4128, -7206>>
cKJFK == <<4064, -7378>>
cABC1 == <<500, 500>>
cABC2 == <<4100, -7200>>

Navaid(code, coords) ==
    [code |-> code, coords |-> coords, inAwy |-> Absent, outAwy |-> Absent]

FixtureNavaids ==
    [c \in {"KBOS", "ORW", "KJFK", "ABC"} |->
        CASE c = "KBOS" -> <<Navaid("KBOS", cKBOS)>>
          [] c = "ORW" -> <<Navaid("ORW", cORW)>>
          [] c = "KJFK" -> <<Navaid("KJFK", cKJFK)>>
          [] c = "ABC" -> <<Navaid("ABC", cABC1), Navaid("ABC", cABC2)>>]

AirwayPoint(code, coords, base, top) ==
    [base |-> base, top |-> top, navaid |-> [code |-> code, coords |-> coords]]

FixtureAirways ==
    [c \in {"J121"} |->
        << [code |-> "J121", high |-> FALSE,
            waypoints |-> << AirwayPoint("KBOS", cKBOS, 180, 450),
                             AirwayPoint("ORW", cORW, 180, 450),
                             AirwayPoint("KJFK", cKJFK, -1, -1) >>],
           [code |-> "J121", high |-> TRUE,
            waypoints |-> << AirwayPoint("ABC", cABC2, 250, 600),
                             AirwayPoint("KJFK", cKJFK, -1, -1) >>] >>]

\* coordsDistance as the source computes it, rounded to whole nautical
\* miles, for the coordinates of the fixture (row: standpoint, column:
\* forepoint, in the order origin, KBOS, ORW, KJFK, ABC1, ABC2).
PointIx(c) ==
    CASE c = cOrigin -> 1 [] c = cKBOS -> 2 [] c = cORW -> 3
      [] c = cKJFK -> 4 [] c = cABC1 -> 5 [] c = cABC2 -> 6

coordsDistance(standpoint, forepoint) ==
    LET table == << <<0, 4292, 4350, 4447, 423, 4346>>,
                    <<5283, 0, 80, 160, 5606, 93>>,
                    <<5302, 81, 0, 86, 5623, 17>>,
                    <<5328, 164, 88, 0, 5646, 84>>,
                    <<426, 4852, 4916, 5022, 0, 4913>>,
                    <<5301, 94, 17, 83, 5622, 0>> >>
    IN table[PointIx(standpoint)][PointIx(forepoint)]

---------------------------------------------------------------------------
(* NavData.findAirway *)

Reverse(s) == [k \in 1..Len(s) |-> s[Len(s) + 1 - k]]

\* waypoint = waypoint['navaid'].copy(); waypoint.update(inAwy = airway, outAwy = None)
TraversalPoint(p, awy) ==
    [code |-> p.navaid.code, coords |-> p.navaid.coords,
     inAwy |-> awy, outAwy |-> NoneAwy]

WalkInit == [foundSrc |-> FALSE, foundDest |-> FALSE, waypoints |-> <<>>,
             returned |-> FALSE]

\* WalkStep without waypoints.reverse() when the destination came first.
WalkStepNoReverse(w, p, awy, srcCode, dest) ==
    IF p.navaid.code = srcCode THEN
        IF w.foundDest
        THEN [w EXCEPT !.returned = TRUE]
        ELSE [w EXCEPT !.foundSrc = TRUE]
    ELSE IF p.navaid.code = dest THEN
        LET ws == Append(w.waypoints, TraversalPoint(p, awy)) IN
        IF w.foundSrc
        THEN [w EXCEPT !.waypoints = ws, !.returned = TRUE]
        ELSE [w EXCEPT !.waypoints = ws, !.foundDest = TRUE]
    ELSE IF w.foundSrc \/ w.foundDest THEN
        LET patched == IF Len(w.waypoints) # 0
                       THEN [w.waypoints EXCEPT ![Len(w.waypoints)].outAwy = awy]
                       ELSE w.waypoints
        IN [w EXCEPT !.waypoints = Append(patched, TraversalPoint(p, awy))]
    ELSE w

\* WalkStep collecting every point that is neither source nor destination,
\* also the points before either was found.
WalkStepEager(w, p, awy, srcCode, dest) ==
    IF p.navaid.code = srcCode THEN
        IF w.foundDest
        THEN [w EXCEPT !.waypoints = Reverse(@), !.returned = TRUE]
        ELSE [w EXCEPT !.foundSrc = TRUE]
    ELSE IF p.navaid.code = dest THEN
        LET ws == Append(w.waypoints, TraversalPoint(p, awy)) IN
        IF w.foundSrc
        THEN [w EXCEPT !.waypoints = ws, !.returned = TRUE]
        ELSE [w EXCEPT !.waypoints = ws, !.foundDest = TRUE]
    ELSE
        LET patched == IF Len(w.waypoints) # 0
                       THEN [w.waypoints EXCEPT ![Len(w.waypoints)].outAwy = awy]
                       ELSE w.waypoints
        IN [w EXCEPT !.waypoints = Append(patched, TraversalPoint(p, awy))]

\* One iteration of the loop over airway['waypoints'].
WalkStep(w, p, awy, srcCode, dest) ==
    IF p.navaid.code = srcCode THEN
        IF w.foundDest
        THEN [w EXCEPT !.waypoints = Reverse(@), !.returned = TRUE]
        ELSE [w EXCEPT !.foundSrc = TRUE]
    ELSE IF p.navaid.code = dest THEN
        LET ws == Append(w.waypoints, TraversalPoint(p, awy)) IN
        IF w.foundSrc
        THEN [w EXCEPT !.waypoints = ws, !.returned = TRUE]
        ELSE [w EXCEPT !.waypoints = ws, !.foundDest = TRUE]
    ELSE IF w.foundSrc \/ w.foundDest THEN
        LET patched == IF Len(w.waypoints) # 0
                       THEN [w.waypoints EXCEPT ![Len(w.waypoints)].outAwy = awy]
                       ELSE w.waypoints
        IN [w EXCEPT !.waypoints = Append(patched, TraversalPoint(p, awy))]
    ELSE w

RECURSIVE Walk(_, _, _, _, _, _)
Walk(w, pts, k, awy, srcCode, dest) ==
    IF w.returned \/ k > Len(pts) THEN w
    ELSE Walk(WalkStep(w, pts[k], awy, srcCode, dest), pts, k + 1, awy, srcCode, dest)

NotFound == [found |-> FALSE, waypoints |-> <<>>, airway |-> NoneAwy]

RECURSIVE FindIn(_, _, _, _, _)
FindIn(list, code, k, srcCode, dest) ==
    IF k > Len(list) THEN NotFound
    ELSE LET awy == [code |-> code, n |-> k]
             w == Walk(WalkInit, list[k].waypoints, 1, awy, srcCode, dest)
         IN IF w.returned
            THEN [found |-> TRUE, waypoints |-> w.waypoints, airway |-> awy]
            ELSE FindIn(list, code, k + 1, srcCode, dest)

findAirway(aws, code, src, dest) ==
    IF code \notin DOMAIN aws THEN NotFound
    ELSE FindIn(aws[code], code, 1, src.code, dest)

---------------------------------------------------------------------------
(* IfrRoute.append: the route string *)

\* The words a route string is made of.  dct is the one lower-case word.
Vocab == {"KBOS", "KJFK", "ABC", "J121", "dct", "XYZZY"}

\* str.upper() on one word of the vocabulary.
Upper(w) == IF w = "dct" THEN "DCT" ELSE w

\* tokens = route.upper().split(); a route string is given as its words.
Tokens(route) == [k \in 1..Len(route) |-> Upper(route[k])]

\* ' '.join(tokens)
RECURSIVE Join(_)
Join(tokens) ==
    IF Len(tokens) = 0 THEN ""
    ELSE IF Len(tokens) = 1 THEN tokens[1]
    ELSE tokens[1] \o " " \o Join(Tail(tokens))

---------------------------------------------------------------------------
(* IfrRoute.append: the local state of one call *)

NoneResult == [kind |-> "None"]
Raised(exc) == [kind |-> exc]

LoopInit(route, bestGuess, missingOk, choice, wps, nav, aws) ==
    [tokens |-> Tokens(route), i |-> 0,
     bestGuess |-> bestGuess, missingOk |-> missingOk, choice |-> choice,
     lastWaypoint |-> NoWp,
     remaining |-> Join(Tokens(route)),
     expecting |-> [waypoint |-> TRUE, airway |-> FALSE, direct |-> FALSE],
     waypoints |-> wps, navaids |-> nav, airways |-> aws,
     found |-> FALSE,
     returned |-> FALSE, ret |-> NoneResult,
     \* observation only: the waypoint most recently committed by this call,
     \* and the record of what the call did
     prev |-> NoWp, log |-> <<>>]

\* tokens[k], k counted from 0.  tokens[-1] is the last token.
Tok(st, k) == IF k < 0 THEN st.tokens[Len(st.tokens) + 1 + k] ELSE st.tokens[k + 1]

Logged(st, e) == [st EXCEPT !.log = Append(@, e)]

\* A navaid record as the code/coords pair lastWaypoint is read for.
AsWp(rec) == [code |-> rec.code, coords |-> rec.coords]

\* waypoint = navaid.copy(); waypoint.update(inAwy = None, outAwy = None)
WaypointCopy(rec) ==
    Own([code |-> rec.code, coords |-> rec.coords,
         inAwy |-> NoneAwy, outAwy |-> NoneAwy])

---------------------------------------------------------------------------
(* IfrRoute._findAirway *)

\* self.waypoints[-1]['outAwy'] = airway; self.waypoints += waypoints
AppendTraversal(st, r) ==
    LET n == Len(st.waypoints) IN
    IF n = 0 THEN [st EXCEPT !.returned = TRUE, !.ret = Raised("IndexError")]
    ELSE IF st.waypoints[n].kind = "none"
    THEN [st EXCEPT !.returned = TRUE, !.ret = Raised("TypeError")]
    ELSE
        LET e == st.waypoints[n]
            wps == IF e.kind = "own"
                   THEN [st.waypoints EXCEPT ![n].rec.outAwy = r.airway]
                   ELSE st.waypoints
            nav == IF e.kind = "index"
                   THEN [st.navaids EXCEPT ![e.code][e.n].outAwy = r.airway]
                   ELSE st.navaids
            added == [k \in 1..Len(r.waypoints) |-> Own(r.waypoints[k])]
            last == r.waypoints[Len(r.waypoints)]
        IN [st EXCEPT !.waypoints = wps \o added,
                      !.navaids = nav,
                      !.found = TRUE,
                      !.lastWaypoint = AsWp(last),
                      !.prev = AsWp(last),
                      !.log = Append(@, [ev |-> "airway", srcPos |-> n,
                                         src |-> Deref(nav, wps[n]),
                                         ws |-> r.waypoints,
                                         airway |-> r.airway])]

_findAirway(st, airway, src, dest) ==
    LET r == findAirway(st.airways, airway, src, dest) IN
    IF ~r.found
    THEN [st EXCEPT !.found = FALSE, !.lastWaypoint = src]
    ELSE AppendTraversal(st, r)

---------------------------------------------------------------------------
(* IfrRoute.append: one iteration of the loop over the tokens *)

\* if expecting['direct'] and i != len(tokens) - 1: if tokens[i] == 'DCT' ...
DirectHit(st) ==
    /\ st.expecting.direct
    /\ st.i # Len(st.tokens) - 1
    /\ Tok(st, st.i) \in {"DCT", "SID", "STAR"}

\* DirectStep leaving the expectation as it is.
DirectStepKeepsExpecting(st) ==
    [st EXCEPT !.log = Append(@, [ev |-> "marker", tok |-> st.i])]

\* ... the expectation is reset and the loop continues; i is left as it is.
DirectStep(st) ==
    [st EXCEPT !.expecting = [waypoint |-> TRUE, airway |-> FALSE, direct |-> FALSE],
               !.log = Append(@, [ev |-> "marker", tok |-> st.i])]

\* AirwayGuard without the test of lastWaypoint.
AirwayGuardAnySource(st) ==
    /\ st.expecting.airway
    /\ st.i # Len(st.tokens) - 1

\* if expecting['airway']: if lastWaypoint is not None and i != len(tokens) - 1
AirwayGuard(st) ==
    /\ st.expecting.airway
    /\ st.lastWaypoint # NoWp
    /\ st.i # Len(st.tokens) - 1

\* The airway branch.  When the airway is found the iteration ends here
\* (break or continue), and remaining is left as it is.
AirwayStep(st) ==
    LET r == _findAirway(Logged(st, [ev |-> "findAirway", tok |-> st.i,
                                     pos |-> Len(st.waypoints)]),
                         Tok(st, st.i), st.lastWaypoint, Tok(st, st.i + 1))
    IN IF r.returned \/ ~r.found THEN r
       ELSE [r EXCEPT !.i = @ + 2,
                      !.expecting = IF r.i + 2 = Len(r.tokens)
                                    THEN @
                                    ELSE [waypoint |-> TRUE, airway |-> TRUE,
                                          direct |-> TRUE]]

\* return dict(remaining = ..., navaid = ..., code = tokens[i], choices = ...,
\*             wp1 = ..., wp2 = ...)
Failure(st, choices) ==
    LET ctx == /\ st.expecting.airway
               /\ st.lastWaypoint # NoWp
               /\ st.i # Len(st.tokens) - 1
    IN [st EXCEPT !.returned = TRUE,
                  !.ret = [kind |-> "RouteFailure",
                           remaining |-> st.remaining,
                           navaid |-> ~ctx,
                           code |-> Tok(st, st.i),
                           choices |-> choices,
                           wp1 |-> IF ctx THEN Tok(st, st.i - 1) ELSE "None",
                           wp2 |-> IF ctx THEN Tok(st, st.i + 1) ELSE "None"]]

Committed(st, nrec, pred, viaChoice) ==
    [ev |-> "commit", tok |-> st.i, pos |-> Len(st.waypoints),
     nrec |-> nrec, pred |-> pred, cont |-> st.found, choice |-> viaChoice]

\* self.waypoints.append(choice.update(inAwy = None, outAwy = None))
\* lastWaypoint = choice; choice = None
\* dict.update returns None, and it is the record of the index it updates.
CommitChoice(st) ==
    LET c == st.choice
        rec == st.navaids[c.code][c.n]
        s1 == [st EXCEPT !.navaids[c.code][c.n].inAwy = NoneAwy,
                         !.navaids[c.code][c.n].outAwy = NoneAwy,
                         !.waypoints = Append(@, NoneEntry),
                         !.lastWaypoint = AsWp(rec),
                         !.prev = AsWp(rec),
                         !.found = FALSE,
                         !.choice = NoChoice]
    IN Logged(s1, Committed(s1, 1, st.prev, TRUE))

\* if tokens[i] not in self._navdata.navaids: ...
Missing(st) ==
    IF ~st.missingOk THEN Failure(st, <<>>) ELSE st

\* sorted(navaids, key = ...): the positions of the records, in sorted order.
\* The sort is stable.
RECURSIVE SortPrefix(_, _)
SortPrefix(keys, m) ==
    IF m = 0 THEN <<>>
    ELSE LET s == SortPrefix(keys, m - 1)
             c == Cardinality({j \in 1..Len(s) : keys[s[j]] <= keys[m]})
         IN SubSeq(s, 1, c) \o <<m>> \o SubSeq(s, c + 1, Len(s))

Sorted(recs, standpoint) ==
    SortPrefix([k \in 1..Len(recs) |-> coordsDistance(standpoint, recs[k].coords)],
               Len(recs))

\* for navaid in navaids: ... self.waypoints[-1] = waypoint;
\* found, lastWaypoint = self._findAirway(...); if found: break
RECURSIVE TryCandidates(_, _, _, _)
TryCandidates(st, recs, order, k) ==
    IF k > Len(order) THEN st
    ELSE LET s1 == [st EXCEPT !.waypoints[Len(st.waypoints)] =
                                    WaypointCopy(recs[order[k]])]
             r == _findAirway(Logged(s1, [ev |-> "findAirway", tok |-> st.i + 1,
                                          pos |-> Len(s1.waypoints)]),
                              Tok(st, st.i + 1), AsWp(recs[order[k]]),
                              Tok(st, st.i + 2))
         IN IF r.returned \/ r.found THEN r
            ELSE TryCandidates(r, recs, order, k + 1)

\* The bestGuess branch of a known token.
BestGuess(st) ==
    LET code == Tok(st, st.i)
        recs == st.navaids[code]
        n == Len(st.tokens)
        standpoint == IF st.lastWaypoint # NoWp THEN st.lastWaypoint.coords
                      ELSE cOrigin
        order == Sorted(recs, standpoint)
        first == recs[order[1]]
    IN IF Len(recs) = 1 \/ st.i >= n - 2 THEN
           \* Only one waypoint found, or no possibility of following airway
           LET s1 == [st EXCEPT !.waypoints = Append(@, WaypointCopy(first)),
                                !.prev = AsWp(first), !.found = FALSE]
               s2 == IF st.i < n - 2
                     THEN _findAirway(
                              Logged(s1, [ev |-> "findAirway", tok |-> st.i + 1,
                                          pos |-> Len(s1.waypoints)]),
                              Tok(st, st.i + 1), AsWp(first), Tok(st, st.i + 2))
                     ELSE s1
               ev == [Committed(s1, Len(recs), st.prev, FALSE)
                          EXCEPT !.cont = s2.found]
           IN IF s2.returned THEN s2
              ELSE IF s2.found THEN Logged([s2 EXCEPT !.i = @ + 2], ev)
              ELSE Logged(s2, ev)
       ELSE IF st.i < n - 2 THEN
           \* More than one waypoint found with possibility of following airway
           LET s1 == [st EXCEPT !.waypoints = Append(@, NoneEntry),
                                !.found = FALSE]
               s2 == TryCandidates(s1, recs, order, 1)
               ev == [Committed(s1, Len(recs), st.prev, FALSE)
                          EXCEPT !.cont = s2.found]
           IN IF s2.returned THEN s2
              ELSE IF s2.found THEN Logged([s2 EXCEPT !.i = @ + 2], ev)
              ELSE \* waypoint = navaids[0]; waypoint.copy().update(...)
                   \* self.waypoints[-1] = waypoint: the record of the index
                   Logged([s2 EXCEPT !.waypoints[Len(s2.waypoints)] =
                                          IndexRef(code, order[1]),
                                     !.lastWaypoint = AsWp(first),
                                     !.prev = AsWp(first)], ev)
       ELSE st

\* NoGuess committing the first record of an ambiguous code instead of
\* returning the choices.
NoGuessCommitsFirst(st) ==
    LET code == Tok(st, st.i)
        recs == st.navaids[code]
        s1 == [st EXCEPT !.waypoints = Append(@, WaypointCopy(recs[1])),
                         !.lastWaypoint = AsWp(recs[1]),
                         !.prev = AsWp(recs[1]), !.found = FALSE]
    IN Logged(s1, Committed(s1, Len(recs), st.prev, FALSE))

\* The branch of a known token when bestGuess is not set.
NoGuess(st) ==
    LET code == Tok(st, st.i)
        recs == st.navaids[code]
    IN IF Len(recs) = 1 THEN
           LET s1 == [st EXCEPT !.waypoints = Append(@, WaypointCopy(recs[1])),
                                !.lastWaypoint = AsWp(recs[1]),
                                !.prev = AsWp(recs[1]), !.found = FALSE]
           IN Logged(s1, Committed(s1, 1, st.prev, FALSE))
       ELSE IF Len(recs) > 1 THEN
           Failure(st, [k \in 1..Len(recs) |-> IndexRef(code, k)])
       ELSE st

\* i += 1; remaining = ' '.join(tokens[i:])
Advance(st) ==
    [st EXCEPT !.i = @ + 1,
               !.remaining = Join(SubSeq(st.tokens, st.i + 2, Len(st.tokens)))]

\* if expecting['waypoint']: ... and the end of the iteration
WaypointStep(st) ==
    LET r == IF ~st.expecting.waypoint THEN st
             ELSE IF st.choice # NoChoice THEN CommitChoice(st)
             ELSE LET s1 == Logged(st, [ev |-> "lookup", tok |-> st.i,
                                        prev |-> st.prev,
                                        expecting |-> st.expecting]) IN
                  IF Tok(st, st.i) \notin DOMAIN st.navaids THEN Missing(s1)
                  ELSE IF st.bestGuess THEN BestGuess(s1)
                  ELSE NoGuess(s1)
    IN IF r.returned THEN r
       ELSE IF ~st.expecting.waypoint THEN Advance(r)
       ELSE Advance([r EXCEPT !.expecting.direct = TRUE,
                              !.expecting.airway = TRUE])

\* The body of: while i != len(tokens)
Iter(st) ==
    IF DirectHit(st) THEN DirectStep(st)
    ELSE IF AirwayGuard(st) THEN
        LET a == AirwayStep(st) IN
        IF a.returned \/ a.found THEN a ELSE WaypointStep(a)
    ELSE WaypointStep(st)

RECURSIVE RunLoop(_)
RunLoop(st) ==
    IF st.returned \/ st.i = Len(st.tokens) THEN st
    ELSE RunLoop(Iter(st))

---------------------------------------------------------------------------
(* The route object and the calls made on it *)

\* The route strings of at most n words (at least one).
Routes(n) == UNION {[1..k -> Vocab] : k \in 1..n}

\* No call before the first one.
NoBefore == [route |-> <<>>, bestGuess |-> FALSE, missingOk |-> FALSE,
             choice |-> NoChoice, waypoints |-> <<>>,
             navaids |-> FixtureNavaids, result |-> [kind |-> "None"]]

NoCall == [route |-> <<>>, tokens |-> <<>>, bestGuess |-> FALSE,
           missingOk |-> FALSE, choice |-> NoChoice,
           waypoints |-> <<>>, navaids |-> FixtureNavaids,
           before |-> NoBefore]

NoFa == [code |-> "", src |-> NoWp, dest |-> "", called |-> FALSE,
         ret |-> NotFound]

\* No data file is being parsed.
NoFile == [type |-> "none", header |-> <<>>, rows |-> <<>>]

\* No call of append is under way.
NoFrame ==
    [running |-> FALSE,
     st |-> LoopInit(<<>>, FALSE, FALSE, NoChoice, <<>>, FixtureNavaids,
                     FixtureAirways)]

\* IfrRoute(navdata): an empty route over the loaded index.
Init ==
    /\ waypoints = <<>>
    /\ navaids = FixtureNavaids
    /\ airways = FixtureAirways
    /\ result = NoneResult
    /\ call = NoCall
    /\ log = <<>>
    /\ endI = 0
    /\ ncalls = 0
    /\ used = 0
    /\ fa = NoFa
    /\ file = NoFile
    /\ status = "none"
    /\ awySegments = <<>>
    /\ airports = <<>>
    /\ frame = NoFrame

\* The candidates a caller can pass as choice: none, or one of the choices
\* of the failure the previous call returned.
Choices ==
    {NoChoice} \cup
    (IF result.kind = "RouteFailure"
     THEN {result.choices[k] : k \in 1..Len(result.choices)}
     ELSE {})

\* appendFrom resolving the route string into a fresh list of waypoints
\* that replaces the route's.
appendFromReplacing(route, bestGuess, missingOk, choice, before) ==
    /\ ncalls < MaxCalls
    /\ used + Len(route) <= MaxTokens
    /\ \E fin \in {RunLoop(LoopInit(route, bestGuess, missingOk, choice,
                                     <<>>, navaids, airways))} :
       /\ waypoints' = fin.waypoints
       /\ navaids' = fin.navaids
       /\ result' = fin.ret
       /\ call' = [route |-> route, tokens |-> fin.tokens,
                   bestGuess |-> bestGuess, missingOk |-> missingOk,
                   choice |-> choice,
                   waypoints |-> waypoints, navaids |-> navaids,
                   before |-> before]
       /\ log' = fin.log
       /\ endI' = fin.i
       /\ ncalls' = ncalls + 1
       /\ used' = used + Len(route)
       /\ UNCHANGED <<airways, fa, file, status, awySegments, airports, frame>>

\* One call of append.  before is what the caller keeps of the call made
\* before this one (observation only).
appendFrom(route, bestGuess, missingOk, choice, before) ==
    /\ ncalls < MaxCalls
    /\ used + Len(route) <= MaxTokens
    /\ \E fin \in {RunLoop(LoopInit(route, bestGuess, missingOk, choice,
                                     waypoints, navaids, airways))} :
       /\ waypoints' = fin.waypoints
       /\ navaids' = fin.navaids
       /\ result' = fin.ret
       /\ call' = [route |-> route, tokens |-> fin.tokens,
                   bestGuess |-> bestGuess, missingOk |-> missingOk,
                   choice |-> choice,
                   waypoints |-> waypoints, navaids |-> navaids,
                   before |-> before]
       /\ log' = fin.log
       /\ endI' = fin.i
       /\ ncalls' = ncalls + 1
       /\ used' = used + Len(route)
       /\ UNCHANGED <<airways, fa, file, status, awySegments, airports, frame>>

append(route, bestGuess, missingOk, choice) ==
    appendFrom(route, bestGuess, missingOk, choice, NoBefore)

Next ==
    \E route \in Routes(MaxTokens - used), bestGuess \in BOOLEAN,
       missingOk \in BOOLEAN, choice \in Choices :
        append(route, bestGuess, missingOk, choice)

Spec == Init /\ [][Next]_vars

---------------------------------------------------------------------------
(* A route string appended in two calls: the second call keeps the         *)
(* arguments, the starting state and the result of the first.              *)

Previous ==
    [route |-> call.route, bestGuess |-> call.bestGuess,
     missingOk |-> call.missingOk, choice |-> call.choice,
     waypoints |-> call.waypoints, navaids |-> call.navaids,
     result |-> result]

appendTwo(route, bestGuess, missingOk, choice) ==
    /\ ncalls < 2
    /\ appendFrom(route, bestGuess, missingOk, choice, Previous)

NextSplit ==
    \E route \in Routes(MaxTokens - used), bestGuess \in BOOLEAN,
       missingOk \in BOOLEAN, choice \in Choices :
        appendTwo(route, bestGuess, missingOk, choice)

SpecSplit == Init /\ [][NextSplit]_vars

---------------------------------------------------------------------------
(* Two calls of append on one route by a caller that keeps its flags       *)

\* Number of words of the first route string, and of the second.
MaxFirst == 3
MaxSecond == 4

\* The words of these route strings.
PolicyVocab == {"ABC", "KJFK", "J121", "XYZZY"}

PolicyRoutes(n) == UNION {[1..k -> PolicyVocab] : k \in 1..n}

\* One call of append without a choice.
appendUnder(route, bestGuess, missingOk) ==
    \E fin \in {RunLoop(LoopInit(route, bestGuess, missingOk, NoChoice,
                                  waypoints, navaids, airways))} :
       /\ waypoints' = fin.waypoints
       /\ navaids' = fin.navaids
       /\ result' = fin.ret
       /\ call' = [route |-> route, tokens |-> fin.tokens,
                   bestGuess |-> bestGuess, missingOk |-> missingOk,
                   choice |-> NoChoice,
                   waypoints |-> waypoints, navaids |-> navaids,
                   before |-> NoBefore]
       /\ log' = fin.log
       /\ endI' = fin.i
       /\ ncalls' = ncalls + 1
       /\ used' = used + Len(route)
       /\ UNCHANGED <<airways, fa, file, status, awySegments, airports, frame>>

NextPolicy ==
    \/ /\ ncalls = 0
       /\ \E route \in PolicyRoutes(MaxFirst), bestGuess \in BOOLEAN,
             missingOk \in BOOLEAN :
              appendUnder(route, bestGuess, missingOk)
    \/ /\ ncalls = 1
       /\ \E route \in PolicyRoutes(MaxSecond) :
              appendUnder(route, call.bestGuess, call.missingOk)

SpecPolicy == Init /\ [][NextPolicy]_vars

---------------------------------------------------------------------------
(* One call of append on an empty route, iteration by iteration *)

\* The choices a caller can hold from a failure on another route over the
\* same index.
HeldChoices == {NoChoice, IndexRef("ABC", 1), IndexRef("ABC", 2)}

\* append is called: the statements before the loop.
Enter(route, bestGuess, missingOk, choice) ==
    /\ ~frame.running
    /\ ncalls = 0
    /\ Len(route) <= MaxTokens
    /\ frame' = [running |-> TRUE,
                 st |-> LoopInit(route, bestGuess, missingOk, choice,
                                 waypoints, navaids, airways)]
    /\ call' = [route |-> route, tokens |-> Tokens(route),
                bestGuess |-> bestGuess, missingOk |-> missingOk,
                choice |-> choice,
                waypoints |-> waypoints, navaids |-> navaids,
                before |-> NoBefore]
    /\ log' = <<>>
    /\ endI' = 0
    /\ used' = used + Len(route)
    /\ UNCHANGED <<waypoints, navaids, airways, result, ncalls, fa, file,
                   status, awySegments, airports>>

\* The loop condition holds in a call that has not returned.
Looping ==
    /\ frame.running
    /\ ~frame.st.returned
    /\ frame.st.i # Len(frame.st.tokens)

\* while i != len(tokens): one iteration.
Iterate ==
    /\ Looping
    /\ \E next \in {Iter(frame.st)} :
        /\ frame' = [frame EXCEPT !.st = next]
        /\ waypoints' = next.waypoints
        /\ navaids' = next.navaids
        /\ log' = next.log
        /\ endI' = next.i
    /\ UNCHANGED <<airways, result, call, ncalls, used, fa, file, status,
                   awySegments, airports>>

\* The call ends: a return inside the loop, an exception, or return None
\* after the loop.
Leave ==
    /\ frame.running
    /\ frame.st.returned \/ frame.st.i = Len(frame.st.tokens)
    /\ result' = frame.st.ret
    /\ ncalls' = ncalls + 1
    /\ frame' = [frame EXCEPT !.running = FALSE]
    /\ UNCHANGED <<waypoints, navaids, airways, call, log, endI, used, fa,
                   file, status, awySegments, airports>>

NextSteps ==
    \/ /\ ~frame.running /\ ncalls = 0
       /\ \E route \in Routes(MaxTokens), bestGuess \in BOOLEAN,
             missingOk \in BOOLEAN, choice \in HeldChoices :
              Enter(route, bestGuess, missingOk, choice)
    \/ Iterate
    \/ Leave

SpecSteps == Init /\ [][NextSteps]_vars

\* Weak fairness of Iterate.  Iter is a total function of the loop state and
\* every iteration changes the frame, so <<Iterate>>_vars is enabled exactly
\* where Looping holds, and WF_vars(Iterate) is written with Looping in the
\* place of ENABLED <<Iterate>>_vars.
IterateFair == []<>(~Looping) \/ []<><<Iterate>>_vars

\* A call that is under way goes on to its next statement: the interpreter
\* runs one thread and never stops between two statements.
SpecStepsFair == SpecSteps /\ IterateFair /\ WF_vars(Leave)

---------------------------------------------------------------------------
(* Direct calls of NavData.findAirway on bounded airway indexes *)

FACodes == {"A", "B", "C"}

\* The airways of at most n points: any sequence of codes of length >= 2
\* (an assembled airway is seeded with the two ends of a segment).
AwyCodeSeqs(n) == UNION {[1..k -> FACodes] : k \in 2..n}

\* The lists of airways with at most t points in all.
RECURSIVE AwyLists(_)
AwyLists(t) ==
    {<<>>} \cup
    UNION {{<<a>> \o rest : rest \in AwyLists(t - Len(a))} : a \in AwyCodeSeqs(t)}

\* The k-th airway stored under identifier J, with the given codes.  Every
\* point has coordinates of its own, so airways sharing the identifier are
\* geographically disjoint.
FAAirway(codes, k) ==
    [code |-> "J", high |-> FALSE,
     waypoints |-> [j \in 1..Len(codes) |->
                        AirwayPoint(codes[j], <<k, j>>, 0, 0)]]

FAIndexes ==
    {[c \in {"J"} |-> [k \in 1..Len(l) |-> FAAirway(l[k], k)]] :
        l \in AwyLists(MaxAwyPoints) \ {<<>>}}

InitFA ==
    /\ waypoints = <<>>
    /\ navaids = FixtureNavaids
    /\ airways \in FAIndexes
    /\ result = NoneResult
    /\ call = NoCall
    /\ log = <<>>
    /\ endI = 0
    /\ ncalls = 0
    /\ used = 0
    /\ fa \in [code : {"J", "K"},
               src : {[code |-> c, coords |-> cOrigin] : c \in FACodes},
               dest : FACodes, called : {FALSE}, ret : {NotFound}]
    /\ file = NoFile
    /\ status = "none"
    /\ awySegments = <<>>
    /\ airports = <<>>
    /\ frame = NoFrame

CallFindAirway ==
    /\ ~fa.called
    /\ fa' = [fa EXCEPT !.called = TRUE,
                        !.ret = findAirway(airways, fa.code, fa.src, fa.dest)]
    /\ UNCHANGED <<waypoints, navaids, airways, result, call, log, endI,
                   ncalls, used, file, status, awySegments, airports, frame>>

NextFA == CallFindAirway

SpecFindAirway == InitFA /\ [][NextFA]_vars

---------------------------------------------------------------------------
(* NavData._parseData: the header of a data file *)

FileTypes == {"awy", "fix", "nav", "apt"}

\* type, version = 'awy', '640' ...
ExpectedVersion(type) ==
    CASE type = "awy" -> "640" [] type = "fix" -> "600"
      [] type = "nav" -> "810" [] type = "apt" -> "850"

\* The lines tried as first, second and third line of a file.
Line1s == {"I", "A", "X"}
Line2s == {"640 Version", "600 Version", "810 Version", "850 Version",
           "Version 640"}
Line3s == {"", "x"}

\* re.match('^([0-9]+) Version', line): the digits captured, "" when the
\* line does not match.
VersionMatch(line) ==
    CASE line = "640 Version" -> "640" [] line = "600 Version" -> "600"
      [] line = "810 Version" -> "810" [] line = "850 Version" -> "850"
      [] OTHER -> ""

\* line == 1, line == 2, line == 3: line is a str and the other side an
\* int; in Python these are never equal.
StrEqualsInt(line, n) == FALSE

\* The body of "if i < 4:" for one line; TRUE when it raises ValueError.
HeaderLineRaises(line, version) ==
    IF StrEqualsInt(line, 1) THEN line # "I" /\ line # "A"
    ELSE IF StrEqualsInt(line, 2) THEN
        VersionMatch(line) = "" \/ VersionMatch(line) # version
    ELSE IF StrEqualsInt(line, 3) THEN line # ""
    ELSE FALSE

HeaderRaises(header, version) ==
    \E i \in 1..Len(header) : HeaderLineRaises(header[i], version)

\* A header that is valid for the type.
GoodHeader(type) ==
    <<"I", CASE type = "awy" -> "640 Version" [] type = "fix" -> "600 Version"
             [] type = "nav" -> "810 Version" [] type = "apt" -> "850 Version",
      "">>

---------------------------------------------------------------------------
(* NavData._parseData: awy rows and the joining of segments into airways *)

\* base = None, top = None
NoneAlt == -1

\* The end points of segments: two fixes share the code A.
AwyStubs == { [code |-> "A", coords |-> <<0, 0>>],
              [code |-> "A", coords |-> <<1, 1>>],
              [code |-> "B", coords |-> <<2, 2>>],
              [code |-> "C", coords |-> <<3, 3>>] }

\* The last field of a row: one identifier, or two joined by a dash.
AwyIdents == {"J", "J-K"}

\* tokens[9].split('-')
SplitIdents(field) ==
    CASE field = "J" -> <<"J">>
      [] field = "J-K" -> <<"J", "K">>

\* The identifiers a row is staged under.
IdentsOf(row) ==
    {SplitIdents(row.ident)[n] : n \in 1..Len(SplitIdents(row.ident))}

\* The shape of a segment row: its two ends, its class and its identifiers.
SegmentShapes ==
    {s \in {[waypoints |-> <<p, q>>, high |-> h, ident |-> d] :
                p \in AwyStubs, q \in AwyStubs, h \in BOOLEAN,
                d \in AwyIdents} :
        s.waypoints[1] # s.waypoints[2]}

\* The rows of an awy file.  The k-th row carries altitudes of its own.
AwyRows(shapes) ==
    [k \in 1..Len(shapes) |->
        [waypoints |-> shapes[k].waypoints, high |-> shapes[k].high,
         base |-> k, top |-> 100 + k, ident |-> shapes[k].ident]]

\* for ident in idents: awySegments[ident].append(data.copy()), row by row
Stage(rows) ==
    [c \in UNION {IdentsOf(rows[k]) : k \in 1..Len(rows)} |->
        LET ks == {k \in 1..Len(rows) : c \in IdentsOf(rows[k])}
            Nth[n \in 1..Cardinality(ks)] ==
                CHOOSE k \in ks : Cardinality({j \in ks : j <= k}) = n
        IN [n \in 1..Cardinality(ks) |->
               [waypoints |-> rows[Nth[n]].waypoints, high |-> rows[Nth[n]].high,
                base |-> rows[Nth[n]].base, top |-> rows[Nth[n]].top]]]

\* del segments[k]
Remove(segs, k) == SubSeq(segs, 1, k - 1) \o SubSeq(segs, k + 1, Len(segs))

\* airway = dict(code = ident, high = segments[0]['high'], waypoints = [...])
Seed(ident, seg) ==
    [code |-> ident, high |-> seg.high,
     waypoints |-> << [base |-> seg.base, top |-> seg.top,
                       navaid |-> seg.waypoints[1]],
                      [base |-> NoneAlt, top |-> NoneAlt,
                       navaid |-> seg.waypoints[2]] >>]

\* Touches for segments of either class.
TouchesAnyClass(seg, airway, p) ==
    seg.waypoints[1] = p \/ seg.waypoints[2] = p

\* segment['high'] == airway['high'] and (segment['waypoints'][0] == p or
\* segment['waypoints'][1] == p); dicts compare by code and coords.
Touches(seg, airway, p) ==
    /\ seg.high = airway.high
    /\ seg.waypoints[1] = p \/ seg.waypoints[2] = p

\* for segment in segments: the position of the first that touches p, or 0.
FirstTouching(segs, airway, p) ==
    LET S == {k \in 1..Len(segs) : Touches(segs[k], airway, p)} IN
    IF S = {} THEN 0 ELSE CHOOSE k \in S : \A j \in S : k <= j

\* ExtendForward leaving the altitudes on the new last point.
ExtendForwardAltOnNew(airway, seg) ==
    LET n == Len(airway.waypoints)
        waypoint == IF seg.waypoints[2] = airway.waypoints[n].navaid
                    THEN seg.waypoints[1] ELSE seg.waypoints[2]
    IN [airway EXCEPT !.waypoints =
            Append(@, [base |-> seg.base, top |-> seg.top, navaid |-> waypoint])]

\* The forward extension by one segment.
ExtendForward(airway, seg) ==
    LET n == Len(airway.waypoints)
        waypoint == IF seg.waypoints[2] = airway.waypoints[n].navaid
                    THEN seg.waypoints[1] ELSE seg.waypoints[2]
    IN [airway EXCEPT !.waypoints =
            Append([@ EXCEPT ![n].base = seg.base, ![n].top = seg.top],
                   [base |-> NoneAlt, top |-> NoneAlt, navaid |-> waypoint])]

\* The backward extension by one segment.
ExtendBackward(airway, seg) ==
    LET waypoint == IF seg.waypoints[1] = airway.waypoints[1].navaid
                    THEN seg.waypoints[2] ELSE seg.waypoints[1]
    IN [airway EXCEPT !.waypoints =
            <<[base |-> seg.base, top |-> seg.top, navaid |-> waypoint]>> \o @]

\* while True: extend forward, else backward, else the airway is complete.
RECURSIVE Grow(_, _)
Grow(airway, segs) ==
    LET n == Len(airway.waypoints)
        f == FirstTouching(segs, airway, airway.waypoints[n].navaid)
        b == FirstTouching(segs, airway, airway.waypoints[1].navaid)
    IN IF f # 0 THEN Grow(ExtendForward(airway, segs[f]), Remove(segs, f))
       ELSE IF b # 0 THEN Grow(ExtendBackward(airway, segs[b]), Remove(segs, b))
       ELSE [airway |-> airway, segments |-> segs]

\* JoinSegments publishing one airway and leaving the rest.
JoinSegmentsOnce(ident, segs, published) ==
    IF Len(segs) = 0 THEN published
    ELSE Append(published, Grow(Seed(ident, segs[1]), Tail(segs)).airway)

\* while len(segments) != 0: ... self.airways[ident].append(airway)
RECURSIVE JoinSegments(_, _, _)
JoinSegments(ident, segs, published) ==
    IF Len(segs) = 0 THEN published
    ELSE LET g == Grow(Seed(ident, segs[1]), Tail(segs))
         IN JoinSegments(ident, g.segments, Append(published, g.airway))

\* The staging list of an identifier when its while loop is left.
RECURSIVE Drain(_, _)
Drain(ident, segs) ==
    IF Len(segs) = 0 THEN segs
    ELSE Drain(ident, Grow(Seed(ident, segs[1]), Tail(segs)).segments)

---------------------------------------------------------------------------
(* NavData._parseData: apt rows *)

\* The rows of an apt file: an airport header (codes 1, 16, 17) names the
\* airport; the other rows are known by their code only.
AptRowKinds ==
    { [code |-> "1", icao |-> "KAAA"], [code |-> "17", icao |-> "KBBB"],
      [code |-> "100", icao |-> ""], [code |-> "101", icao |-> ""],
      [code |-> "102", icao |-> ""], [code |-> "103", icao |-> ""],
      [code |-> "14", icao |-> ""] }

\* The coordinates a row carries: the two ends of a runway, the centre of a
\* helipad (in units that keep the mean of up to ten points whole).
RowPoints(code) ==
    CASE code = "100" -> << <<2520, 0>>, <<5040, 0>> >>
      [] code = "101" -> << <<0, 2520>>, <<0, 5040>> >>
      [] code = "103" -> << <<7560, 7560>> >>
      [] OTHER -> <<>>

\* One row of an apt file, on a = [airports, raised].
AptRow(a, row) ==
    IF row.code \notin {"1", "16", "17", "100", "102", "103"} THEN a
    ELSE IF row.code \in {"1", "16", "17"} THEN
        [a EXCEPT !.airports = Append(@, [coords |-> <<>>, code |-> row.icao])]
    ELSE IF Len(a.airports) = 0 THEN [a EXCEPT !.raised = TRUE]
    ELSE IF row.code = "100" \/ row.code = "101" \/ row.code = "103" THEN
        [a EXCEPT !.airports[Len(a.airports)].coords = @ \o RowPoints(row.code)]
    ELSE a

RECURSIVE AptRows(_, _, _)
AptRows(a, rows, k) ==
    IF a.raised \/ k > Len(rows) THEN a
    ELSE AptRows(AptRow(a, rows[k]), rows, k + 1)

RECURSIVE SumCoords(_, _)
SumCoords(points, k) ==
    IF k = 0 THEN <<0, 0>>
    ELSE LET r == SumCoords(points, k - 1)
         IN <<r[1] + points[k][1], r[2] + points[k][2]>>

\* coords[0] /= len(airport['coords']); coords[1] /= len(airport['coords'])
MeanCoords(points) ==
    LET sum == SumCoords(points, Len(points))
    IN <<sum[1] \div Len(points), sum[2] \div Len(points)>>

\* for airport in airports: ... self.navaids[airport['code']].append(airport)
RECURSIVE StoreAirports(_, _, _)
StoreAirports(nav, aps, k) ==
    IF k > Len(aps) THEN nav
    ELSE IF Len(aps[k].coords) = 0 THEN StoreAirports(nav, aps, k + 1)
    ELSE LET rec == Navaid(aps[k].code, MeanCoords(aps[k].coords))
             code == aps[k].code
             nav1 == IF code \in DOMAIN nav
                     THEN [nav EXCEPT ![code] = Append(@, rec)]
                     ELSE [c \in DOMAIN nav \cup {code} |->
                              IF c = code THEN <<rec>> ELSE nav[c]]
         IN StoreAirports(nav1, aps, k + 1)

---------------------------------------------------------------------------
(* NavData._parseData on one file, into an empty index *)

RECURSIVE SeqsUpTo(_, _)
SeqsUpTo(S, n) ==
    IF n = 0 THEN {<<>>}
    ELSE LET shorter == SeqsUpTo(S, n - 1)
         IN shorter \cup {Append(q, x) : q \in {r \in shorter : Len(r) = n - 1},
                                         x \in S}

HeaderFiles ==
    {[type |-> t, header |-> <<l1, l2, l3>>, rows |-> <<>>] :
        t \in FileTypes, l1 \in Line1s, l2 \in Line2s, l3 \in Line3s}

AwyFiles ==
    {[type |-> "awy", header |-> GoodHeader("awy"), rows |-> AwyRows(shapes)] :
        shapes \in SeqsUpTo(SegmentShapes, MaxSegments)}

AptFiles ==
    {[type |-> "apt", header |-> GoodHeader("apt"), rows |-> rows] :
        rows \in SeqsUpTo(AptRowKinds, MaxAptRows)}

\* NavData: self.airways = { }; self.navaids = { }; a file is about to be
\* parsed.
InitLoad ==
    /\ waypoints = <<>>
    /\ navaids = <<>>
    /\ airways = <<>>
    /\ result = NoneResult
    /\ call = NoCall
    /\ log = <<>>
    /\ endI = 0
    /\ ncalls = 0
    /\ used = 0
    /\ fa = NoFa
    /\ file \in HeaderFiles \cup AwyFiles \cup AptFiles
    /\ status = "none"
    /\ awySegments = <<>>
    /\ airports = <<>>
    /\ frame = NoFrame

_parseData ==
    /\ status = "none"
    /\ IF HeaderRaises(file.header, ExpectedVersion(file.type))
       THEN /\ status' = "ValueError"
            /\ UNCHANGED <<navaids, airways, awySegments, airports>>
       ELSE IF file.type = "awy"
       THEN LET staged == Stage(file.rows) IN
            /\ airways' = [c \in DOMAIN staged |-> JoinSegments(c, staged[c], <<>>)]
            /\ awySegments' = [c \in DOMAIN staged |-> Drain(c, staged[c])]
            /\ status' = "ok"
            /\ UNCHANGED <<navaids, airports>>
       ELSE IF file.type = "apt"
       THEN LET a == AptRows([airports |-> <<>>, raised |-> FALSE], file.rows, 1) IN
            /\ airports' = a.airports
            /\ status' = IF a.raised THEN "ValueError" ELSE "ok"
            /\ navaids' = IF a.raised THEN navaids
                          ELSE StoreAirports(navaids, a.airports, 1)
            /\ UNCHANGED <<airways, awySegments>>
       ELSE /\ status' = "ok"
            /\ UNCHANGED <<navaids, airways, awySegments, airports>>
    /\ UNCHANGED <<waypoints, result, call, log, endI, ncalls, used, fa, file,
                   frame>>

NextLoad == _parseData

SpecLoad == InitLoad /\ [][NextLoad]_vars

---------------------------------------------------------------------------
(* Claims about NavData.findAirway (checked under SpecFindAirway) *)

\* The code and coordinates of each point of a traversal.
Stubs(ws) == [k \in 1..Len(ws) |-> [code |-> ws[k].code, coords |-> ws[k].coords]]

\* The positions of the points of an airway that carry code c.
Occ(pts, c) == {j \in 1..Len(pts) : pts[j].navaid.code = c}

\* The codes of the waypoints a call of append leaves in a route.
RouteCodes(st) ==
    [k \in 1..Len(st.waypoints) |-> Deref(st.navaids, st.waypoints[k]).code]

\* append("KBOS J121 KJFK J121 KBOS") on an empty route over the fixture,
\* for each setting of bestGuess.
Palindrome ==
    [bestGuess \in BOOLEAN |->
        RunLoop(LoopInit(<<"KBOS", "J121", "KJFK", "J121", "KBOS">>, bestGuess,
                         FALSE, NoChoice, <<>>, FixtureNavaids, FixtureAirways))]

\* C3: if findAirway(code, src, destCode) returns a pair (ws, a), then ws is
\* non-empty, its last element has code destCode, no element has the code of
\* the source, every element has inAwy = a, and a is one of the airways
\* registered under code; otherwise it returns (None, None).
C3_FindAirwayPostcondition ==
    fa.called =>
        IF fa.ret.found
        THEN LET ws == fa.ret.waypoints
                 a == fa.ret.airway
             IN /\ Len(ws) > 0
                /\ ws[Len(ws)].code = fa.dest
                /\ \A k \in 1..Len(ws) :
                        ws[k].code # fa.src.code /\ ws[k].inAwy = a
                /\ fa.code \in DOMAIN airways
                /\ a.code = fa.code
                /\ a.n \in 1..Len(airways[fa.code])
        ELSE fa.ret.waypoints = <<>> /\ fa.ret.airway = NoneAwy

\* A destination-first match with an intermediate point, in the second
\* airway stored under the identifier.
C3_Witness ==
    /\ fa.called /\ fa.ret.found
    /\ fa.ret.airway.n = 2
    /\ Len(fa.ret.waypoints) >= 2
    /\ LET pts == airways[fa.code][2].waypoints
       IN \E s \in Occ(pts, fa.src.code) : \A d \in Occ(pts, fa.dest) : d < s

---------------------------------------------------------------------------
(* Claims about IfrRoute.append (checked under Spec) *)

\* The dict at position k of route.waypoints.
Wp(k) == Deref(navaids, waypoints[k])

\* No airway on this side of a waypoint: None, or the key is missing.
Null(a) == a = NoneAwy \/ a = Absent

Events(kind) == {log[k] : k \in {j \in 1..Len(log) : log[j].ev = kind}}

\* The position in route.waypoints of the first waypoint of the last call.
FirstPos == Len(call.waypoints) + 1

\* The codes that name exactly one record of the index.
UniqueCodes == {c \in DOMAIN FixtureNavaids : Len(FixtureNavaids[c]) = 1}

\* C1: in every route built by append calls, each pair of consecutive
\* waypoints is joined by one airway (outAwy of the first = inAwy of the
\* second, not null) or by none (both null).
C1_SeamInvariant ==
    \A k \in 1..(Len(waypoints) - 1) :
        (waypoints[k].kind # "none" /\ waypoints[k + 1].kind # "none") =>
            \/ Null(Wp(k).outAwy) /\ Null(Wp(k + 1).inAwy)
            \/ ~Null(Wp(k).outAwy) /\ Wp(k).outAwy = Wp(k + 1).inAwy

\* C2: when an airway token is matched, the source waypoint gets outAwy =
\* the airway, every intermediate traversal point has inAwy = outAwy = the
\* airway, and the terminal point has inAwy = the airway and outAwy = None.
C2_TraversalAnnotation ==
    \A e \in Events("airway") :
        /\ e.src.outAwy = e.airway
        /\ \A j \in 1..Len(e.ws) :
            /\ e.ws[j].inAwy = e.airway
            /\ e.ws[j].outAwy = IF j < Len(e.ws) THEN e.airway ELSE NoneAwy

\* C5: a DCT, SID or STAR met in the direct+airway expectation, not as the
\* last token, is consumed: it is never looked up as a navaid or an airway
\* and the token after it is resolved as a waypoint; append("W1 DCT W2")
\* with unique W1, W2 and missingOk = False returns None and leaves the
\* route [W1, W2] with all airway references None.
C5_MarkerConsumed ==
    /\ \A m \in Events("marker") :
        /\ \A e \in Events("lookup") \cup Events("findAirway") : e.tok # m.tok
        /\ result.kind = "None" =>
              \E e \in Events("lookup") \cup Events("commit") : e.tok = m.tok + 1
    /\ \A w1, w2 \in UniqueCodes :
        ( /\ ncalls = 1
          /\ call.tokens = <<w1, "DCT", w2>>
          /\ ~call.missingOk ) =>
            /\ result = NoneResult
            /\ waypoints = << WaypointCopy(FixtureNavaids[w1][1]),
                              WaypointCopy(FixtureNavaids[w2][1]) >>

\* C6: no sequence of append calls changes the index, and no record object
\* of the index is placed in route.waypoints.
C6_IndexImmutable ==
    /\ navaids = FixtureNavaids
    /\ airways = FixtureAirways
    /\ \A k \in 1..Len(waypoints) : waypoints[k].kind # "index"

\* C7: with bestGuess, a token with two or more records from which no
\* airway continuation is taken is committed as the candidate nearest to
\* the waypoint committed immediately before it (to the origin when this
\* call has committed none), at every token position.
C7_NearestCandidate ==
    call.bestGuess =>
        \A e \in Events("commit") :
            (e.nrec >= 2 /\ ~e.cont /\ ~e.choice) =>
                LET standpoint == IF e.pred = NoWp THEN cOrigin
                                  ELSE e.pred.coords
                    recs == call.navaids[call.tokens[e.tok + 1]]
                IN \A k \in 1..Len(recs) :
                    coordsDistance(standpoint, Wp(e.pos).coords)
                        <= coordsDistance(standpoint, recs[k].coords)

\* C8: a call with a choice fills the first waypoint position it resolves
\* with a record equal to the chosen candidate (inAwy None), and the
\* following tokens are resolved normally.
C8_ChoiceCommitted ==
    (ncalls > 0 /\ call.choice # NoChoice) =>
        LET chosen == call.navaids[call.choice.code][call.choice.n] IN
        /\ Len(waypoints) >= FirstPos
        /\ waypoints[FirstPos].kind # "none"
        /\ Wp(FirstPos).code = chosen.code
        /\ Wp(FirstPos).coords = chosen.coords
        /\ Wp(FirstPos).inAwy = NoneAwy
        /\ result.kind \in {"None", "RouteFailure"}

\* C9: the remaining field of a RouteFailure is the space-joined suffix of
\* the token stream that starts at the failing token, whose first token is
\* the failure's code.
C9_FailureRemaining ==
    result.kind = "RouteFailure" =>
        /\ result.code = call.tokens[endI + 1]
        /\ result.remaining = Join(SubSeq(call.tokens, endI + 1, Len(call.tokens)))

\* C10: with bestGuess = False and no choice, a token resolved as a waypoint
\* that has two or more records makes append return a RouteFailure with
\* that code and the index's records for it, in index order, as choices; no
\* waypoint is committed for it and the waypoints committed earlier stay.  A
\* token with exactly one record is committed and produces no failure.
C10_AmbiguityFailure ==
    (ncalls > 0 /\ ~call.bestGuess /\ call.choice = NoChoice) =>
        /\ \A e \in Events("lookup") :
            LET code == call.tokens[e.tok + 1] IN
            code \in DOMAIN call.navaids =>
                IF Len(call.navaids[code]) >= 2
                THEN /\ result.kind = "RouteFailure"
                     /\ endI = e.tok
                     /\ result.code = code
                     /\ result.choices =
                            [k \in 1..Len(navaids[code]) |-> IndexRef(code, k)]
                     /\ \A c \in Events("commit") : c.tok < e.tok
                ELSE \E c \in Events("commit") :
                        /\ c.tok = e.tok
                        /\ waypoints[c.pos].kind = "own"
                        /\ Wp(c.pos).code = code
                        /\ Wp(c.pos).coords = call.navaids[code][1].coords
        /\ result.kind = "RouteFailure" =>
            /\ result.code \in DOMAIN navaids => Len(navaids[result.code]) >= 2
            /\ Len(waypoints) >= Len(call.waypoints)
            /\ SubSeq(waypoints, 1, Len(call.waypoints)) = call.waypoints
            /\ \A c \in Events("commit") :
                /\ c.pos \in FirstPos..Len(waypoints)
                /\ Wp(c.pos).code = call.tokens[c.tok + 1]

\* An ambiguous token fails a call that has already committed a waypoint and
\* an airway traversal.
C10_Witness ==
    /\ ncalls > 0 /\ ~call.bestGuess /\ call.choice = NoChoice
    /\ result.kind = "RouteFailure"
    /\ Len(result.choices) = 2
    /\ Events("airway") # {}
    /\ Len(waypoints) >= Len(call.waypoints) + 3

\* C11: with missingOk = False, a token that is looked up as a navaid and is
\* not in the index makes append return a RouteFailure with that code and
\* no choices.  navaid is False exactly when an airway was expected, a
\* waypoint was committed earlier in the call and the token is not the last;
\* then wp1 is the code of the waypoint committed last and wp2 the token
\* after the failing one.  Otherwise navaid is True and wp1 = wp2 = None.
\* "KBOS XYZZY KJFK" gives code XYZZY, navaid False, wp1 KBOS, wp2 KJFK.
C11_FailureContext ==
    (ncalls > 0 /\ ~call.missingOk) =>
        /\ \A e \in Events("lookup") :
            LET code == call.tokens[e.tok + 1]
                ctx == /\ e.expecting.airway
                       /\ e.prev # NoWp
                       /\ e.tok # Len(call.tokens) - 1
            IN code \notin DOMAIN call.navaids =>
                /\ result.kind = "RouteFailure"
                /\ endI = e.tok
                /\ result.code = code
                /\ result.choices = <<>>
                /\ result.navaid = ~ctx
                /\ result.wp1 = IF ctx THEN e.prev.code ELSE "None"
                /\ result.wp2 = IF ctx THEN call.tokens[e.tok + 2] ELSE "None"
        /\ (ncalls = 1 /\ call.tokens = <<"KBOS", "XYZZY", "KJFK">>) =>
            /\ result.kind = "RouteFailure"
            /\ result.code = "XYZZY" /\ ~result.navaid
            /\ result.wp1 = "KBOS" /\ result.wp2 = "KJFK"

\* The tokens of a run that were consumed as airway identifiers.
AirwayToks(st) ==
    {st.log[j].tok : j \in {m \in 1..(Len(st.log) - 1) :
                                /\ st.log[m].ev = "findAirway"
                                /\ st.log[m + 1].ev = "airway"}}

\* The last two calls were made with the same flags and no choice, and no
\* word of theirs names more than one record.
SplitCalls ==
    /\ ncalls >= 2
    /\ call.choice = NoChoice /\ call.before.choice = NoChoice
    /\ call.bestGuess = call.before.bestGuess
    /\ call.missingOk = call.before.missingOk
    /\ \A k \in 1..Len(call.tokens) : call.tokens[k] # "ABC"
    /\ \A k \in 1..Len(call.before.route) : call.before.route[k] # "ABC"

\* The route strings of the last two calls appended in one call, to the
\* route and index the first of them started with.
OneCall ==
    RunLoop(LoopInit(call.before.route \o call.route, call.bestGuess,
                     call.missingOk, NoChoice, call.before.waypoints,
                     call.before.navaids, airways))

\* C12 as stated: for every token sequence without ambiguous codes that
\* resolves, and every split point, the two calls return None and leave the
\* same route.waypoints as the one call, also when the word after the split
\* is an airway identifier.
C12_LeftAssociative ==
    (SplitCalls /\ OneCall.ret = NoneResult) =>
        /\ call.before.result = NoneResult
        /\ result = NoneResult
        /\ waypoints = OneCall.waypoints

\* The token from which the waypoint before token j of a run came: the
\* last token before j that was committed as a waypoint or that ended an
\* airway traversal (-1 when there is none).
SrcTok(st, j) ==
    LET toks == {st.log[m].tok : m \in {n \in 1..Len(st.log) :
                                            st.log[n].ev = "commit"}}
                \cup {a + 1 : a \in AirwayToks(st)}
        before == {t \in toks : t < j}
    IN IF before = {} THEN -1
       ELSE CHOOSE t \in before : \A u \in before : u <= t

\* The split between the two route strings falls inside an airway traversal
\* of the one call: between the token of its source waypoint and its
\* destination token.
SplitCutsAirway ==
    LET k == Len(call.before.route) IN
    \E a \in AirwayToks(OneCall) : SrcTok(OneCall, a) < k /\ k <= a + 1

\* C12, amended: the same, for the split points that do not cut an airway
\* traversal of the one call (source waypoint, airway identifier and
\* destination on one side of the split); then the index is left the same
\* as well.
C12_LeftAssociativeOffAirway ==
    (SplitCalls /\ OneCall.ret = NoneResult /\ ~SplitCutsAirway) =>
        /\ call.before.result = NoneResult
        /\ result = NoneResult
        /\ waypoints = OneCall.waypoints
        /\ navaids = OneCall.navaids

\* A split after which the second call traverses an airway.
C12_Witness ==
    /\ SplitCalls
    /\ OneCall.ret = NoneResult
    /\ ~SplitCutsAirway
    /\ AirwayToks(OneCall) # {}
    /\ Len(call.before.route) = 1
    /\ Len(waypoints) = 4

\* C13: within one call, a token is looked up as an airway, and a traversal
\* appended for it, only when a waypoint has been committed earlier in the
\* call and a token follows it; the first and the last token of the route
\* string are never consumed as an airway identifier, whatever bestGuess
\* and missingOk are and whatever the index holds under the token.
C13_AirwayPosition ==
    /\ \A e \in Events("findAirway") :
        /\ e.tok >= 1
        /\ e.tok + 1 <= Len(call.tokens) - 1
        /\ e.pos >= FirstPos
    /\ \A e \in Events("airway") : e.srcPos >= FirstPos
    /\ \A a \in AirwayToks([log |-> log]) :
        a # 0 /\ a # Len(call.tokens) - 1

\* A route string that starts with the identifier of an airway, which is
\* not taken as one, and has a traversal of that airway further on.
C13_Witness ==
    /\ ncalls >= 1
    /\ call.tokens[1] = "J121"
    /\ result = NoneResult
    /\ AirwayToks([log |-> log]) = {2}

---------------------------------------------------------------------------
(* Claims about NavData._parseData (checked under SpecLoad) *)

\* An awy file has been parsed.
AwyLoaded == status = "ok" /\ file.type = "awy"

\* The rows of the file staged under identifier k with class high.
RowsOf(k, high) ==
    {file.rows[n] : n \in {m \in 1..Len(file.rows) :
                              /\ k \in IdentsOf(file.rows[m])
                              /\ file.rows[m].high = high}}

\* The navaid stubs of an airway, in order.
Polyline(a) == [j \in 1..Len(a.waypoints) |-> a.waypoints[j].navaid]

PointSet(a) == {a.waypoints[j].navaid : j \in 1..Len(a.waypoints)}

\* C14: for every airway published under identifier k, each two consecutive
\* points are the two ends, in either order, of a row staged under k whose
\* class is the airway's; nothing else makes two points adjacent.
C14_AssembledAdjacency ==
    AwyLoaded =>
        \A k \in DOMAIN airways : \A n \in 1..Len(airways[k]) :
            LET a == airways[k][n] IN
            /\ a.code = k
            /\ Len(a.waypoints) >= 2
            /\ \A j \in 1..(Len(a.waypoints) - 1) :
                \E row \in RowsOf(k, a.high) :
                    {row.waypoints[1], row.waypoints[2]}
                        = {a.waypoints[j].navaid, a.waypoints[j + 1].navaid}

\* An airway of three points next to an airway of the other class that
\* shares a point with it.
C14_Witness ==
    /\ AwyLoaded
    /\ "J" \in DOMAIN airways
    /\ \E n, m \in 1..Len(airways["J"]) :
        /\ Len(airways["J"][n].waypoints) = 3
        /\ airways["J"][n].high # airways["J"][m].high
        /\ PointSet(airways["J"][n]) \cap PointSet(airways["J"][m]) # {}

\* C15: after assembly, any two distinct airways stored under the same
\* identifier differ in class or share no point (by code and coordinates),
\* for every list of staged segments, also when three or more segments of
\* one class meet at a point.
C15_AirwayIndexInvariant ==
    AwyLoaded =>
        \A k \in DOMAIN airways : \A n, m \in 1..Len(airways[k]) :
            n # m =>
                \/ airways[k][n].high # airways[k][m].high
                \/ PointSet(airways[k][n]) \cap PointSet(airways[k][m]) = {}

\* Two airways are the same up to orientation.
SameAirway(a, b) ==
    /\ a.high = b.high
    /\ Polyline(a) = Polyline(b) \/ Polyline(a) = Reverse(Polyline(b))

\* Two lists of airways hold the same airways, each as often.
SameCollection(x, y) ==
    /\ Len(x) = Len(y)
    /\ \E f \in Permutations(1..Len(x)) :
        \A n \in 1..Len(x) : SameAirway(x[n], y[f[n]])

\* C16: for every set of segments staged under one identifier, every
\* ordering of them is assembled into the same collection of airways, up to
\* the orientation of each airway.
C16_OrderIndependent ==
    AwyLoaded =>
        \A k \in DOMAIN airways :
            LET staged == Stage(file.rows)[k] IN
            \A f \in Permutations(1..Len(staged)) :
                SameCollection(
                    JoinSegments(k, [n \in 1..Len(staged) |-> staged[f[n]]], <<>>),
                    airways[k])

\* C19: in every assembled airway, each point but the last carries the base
\* and top of the row that joined it to the next point, and the last point
\* carries None for both, whatever forward and backward extensions built
\* the airway.
C19_EdgeAltitudes ==
    AwyLoaded =>
        \A k \in DOMAIN airways : \A n \in 1..Len(airways[k]) :
            LET a == airways[k][n]
                last == Len(a.waypoints)
            IN /\ a.waypoints[last].base = NoneAlt
               /\ a.waypoints[last].top = NoneAlt
               /\ \A j \in 1..(last - 1) :
                    \E row \in RowsOf(k, a.high) :
                        /\ {row.waypoints[1], row.waypoints[2]}
                              = {a.waypoints[j].navaid, a.waypoints[j + 1].navaid}
                        /\ a.waypoints[j].base = row.base
                        /\ a.waypoints[j].top = row.top

\* An airway grown from its seed by a forward and by a backward extension.
C19_Witness ==
    /\ AwyLoaded
    /\ Len(file.rows) = 3
    /\ Len(airways["J"]) = 1
    /\ LET a == airways["J"][1] IN
       /\ Len(a.waypoints) = 4
       /\ a.waypoints[2].navaid = file.rows[1].waypoints[1]
       /\ a.waypoints[3].navaid = file.rows[1].waypoints[2]
       /\ Cardinality(PointSet(a)) = 4

\* The header of the file is valid: line 1 is I or A, line 2 matches
\* "<digits> Version" with the version expected for the type, line 3 is
\* empty.
ValidHeader ==
    /\ file.header[1] \in {"I", "A"}
    /\ VersionMatch(file.header[2]) # ""
    /\ VersionMatch(file.header[2]) = ExpectedVersion(file.type)
    /\ file.header[3] = ""

\* C17: for each of the four files the load raises an error, and stores
\* nothing, when the header is not valid; it goes on to the data lines only
\* when all three header lines are valid.
C17_HeaderValidation ==
    (status # "none" /\ ~ValidHeader) =>
        /\ status = "ValueError"
        /\ navaids = <<>> /\ airways = <<>>

\* The points the rows up to the k-th add to each airport opened so far,
\* counting two for a 100 row, two for a 101 row and one for a 103 row;
\* raised when such a row comes before the first airport header.
RECURSIVE PointCounts(_, _)
PointCounts(rows, k) ==
    IF k = 0 THEN [raised |-> FALSE, counts |-> <<>>]
    ELSE LET r == PointCounts(rows, k - 1)
             row == rows[k]
             n == Len(r.counts)
             add == IF row.code = "103" THEN 1 ELSE 2
         IN IF r.raised THEN r
            ELSE IF row.code \in {"1", "16", "17"}
            THEN [r EXCEPT !.counts = Append(@, [code |-> row.icao, n |-> 0])]
            ELSE IF row.code \in {"100", "101", "103"}
            THEN IF n = 0 THEN [r EXCEPT !.raised = TRUE]
                 ELSE [r EXCEPT !.counts[n].n = @ + add]
            ELSE r

\* C18: parsing apt.dat, each 100 row adds two points, each 101 row two
\* points and each 103 row one point to the airport opened last; such a row
\* before the first airport header fails the load; afterwards an airport is
\* in the navaid index under its code exactly when it collected a point.
\* An airport whose only rows are 101 rows is in the index.
C18_AirportPoints ==
    (status # "none" /\ file.type = "apt") =>
        LET e == PointCounts(file.rows, Len(file.rows)) IN
        /\ e.raised => status = "ValueError"
        /\ status = "ok" =>
            /\ Len(airports) = Len(e.counts)
            /\ \A k \in 1..Len(airports) :
                /\ airports[k].code = e.counts[k].code
                /\ Len(airports[k].coords) = e.counts[k].n
            /\ \A c \in {"KAAA", "KBBB"} :
                c \in DOMAIN navaids <=>
                    \E k \in 1..Len(e.counts) :
                        e.counts[k].code = c /\ e.counts[k].n >= 1
        /\ (Len(file.rows) = 2 /\ file.rows[1].code = "1"
                /\ file.rows[2].code = "101") =>
            file.rows[1].icao \in DOMAIN navaids

\* The positions of the rows of the file staged under identifier c.
StagedUnder(c) == {m \in 1..Len(file.rows) : c \in IdentsOf(file.rows[m])}

\* The edges of the airways published under c: airway n, from point j to
\* point j + 1.
EdgesOf(c) ==
    {e \in (1..Len(airways[c])) \X (1..(MaxSegments + 1)) :
        e[2] < Len(airways[c][e[1]].waypoints)}

\* Edge e of the airways under c is row m of the file: its two ends, its
\* class and its altitudes.
EdgeIsRow(c, e, m) ==
    LET a == airways[c][e[1]]
        row == file.rows[m]
    IN /\ a.high = row.high
       /\ {a.waypoints[e[2]].navaid, a.waypoints[e[2] + 1].navaid}
             = {row.waypoints[1], row.waypoints[2]}
       /\ a.waypoints[e[2]].base = row.base
       /\ a.waypoints[e[2]].top = row.top

\* The sum over the first n airways of a list of (number of points - 1).
RECURSIVE EdgeCount(_, _)
EdgeCount(list, n) ==
    IF n = 0 THEN 0
    ELSE EdgeCount(list, n - 1) + (Len(list[n].waypoints) - 1)

\* C21: segment conservation.  After assembly the staging list of every
\* identifier is empty, every airway has at least two points, every row
\* staged under an identifier is exactly one edge of exactly one airway
\* published under it, and the airways under it have as many edges as rows
\* were staged under it.
C21_SegmentConservation ==
    AwyLoaded =>
        /\ DOMAIN awySegments = DOMAIN airways
        /\ DOMAIN airways = UNION {IdentsOf(file.rows[m]) : m \in 1..Len(file.rows)}
        /\ \A c \in DOMAIN airways :
            /\ awySegments[c] = <<>>
            /\ \A n \in 1..Len(airways[c]) : Len(airways[c][n].waypoints) >= 2
            /\ \A m \in StagedUnder(c) :
                Cardinality({e \in EdgesOf(c) : EdgeIsRow(c, e, m)}) = 1
            /\ \A e \in EdgesOf(c) : \E m \in StagedUnder(c) : EdgeIsRow(c, e, m)
            /\ EdgeCount(airways[c], Len(airways[c])) = Cardinality(StagedUnder(c))

\* Three rows, all staged under J and fewer under K, assembled into two
\* airways under J, one of them grown backward from its seed.
C21_Witness ==
    /\ AwyLoaded
    /\ Len(file.rows) = 3
    /\ DOMAIN airways = {"J", "K"}
    /\ Cardinality(StagedUnder("K")) < 3
    /\ Len(airways["J"]) = 2
    /\ \E n \in 1..2 :
        /\ Len(airways["J"][n].waypoints) = 3
        /\ airways["J"][n].waypoints[1].navaid \notin
              {file.rows[m].waypoints[1] : m \in 1..3}

---------------------------------------------------------------------------
(* Claims about a route appended to twice (checked under SpecPolicy) *)

\* What a reader of a waypoint sees; a missing inAwy or outAwy reads as None.
Seen(rec) ==
    [code |-> rec.code, coords |-> rec.coords,
     inAwy |-> IF rec.inAwy = Absent THEN NoneAwy ELSE rec.inAwy,
     outAwy |-> IF rec.outAwy = Absent THEN NoneAwy ELSE rec.outAwy]

\* C22: append only extends the route.  The waypoints present before a
\* call are still present after it, in the same order and with unchanged
\* code, coordinates, inAwy and outAwy, whether the call succeeds or
\* returns a RouteFailure; so a call changes outAwy only on waypoints that
\* it committed itself.
C22_AppendOnly ==
    ncalls > 0 =>
        /\ Len(waypoints) >= Len(call.waypoints)
        /\ \A j \in 1..Len(call.waypoints) :
            /\ waypoints[j] = call.waypoints[j]
            /\ Seen(Deref(navaids, waypoints[j]))
                  = Seen(Deref(call.navaids, call.waypoints[j]))

---------------------------------------------------------------------------
(* Claims about the loop of IfrRoute.append (checked under SpecStepsFair) *)

\* An iteration advances the token index, or ends the call, or leaves the
\* index and switches the direct expectation off.
IterationProgress ==
    Iterate =>
        /\ frame'.st.i <= Len(frame.st.tokens)
        /\ \/ frame'.st.i > frame.st.i
           \/ frame'.st.returned
           \/ /\ frame'.st.i = frame.st.i
              /\ frame.st.expecting.direct
              /\ ~frame'.st.expecting.direct

\* C20: append terminates for every token stream and flag setting: every
\* iteration advances the token index or switches off the direct
\* expectation, so that the next one advances it (a DCT, SID or STAR never
\* makes the loop repeat on one token for ever), and a call whose tokens
\* are exhausted returns None.
C20_Terminates ==
    /\ [][IterationProgress]_vars
    /\ frame.running ~> ~frame.running
    /\ [](( /\ ~frame.running /\ ncalls > 0
            /\ ~frame.st.returned ) =>
            /\ endI = Len(call.tokens)
            /\ result = NoneResult)

\* A call that met a marker, went on and returned None.
C20_Witness ==
    /\ ~frame.running /\ ncalls > 0
    /\ Events("marker") # {}
    /\ endI = Len(call.tokens)
    /\ Len(call.tokens) = 4
    /\ result = NoneResult

====
